---- MODULE Spec2Model ----
(***************************************************************************)
(* Model of PlaybackService (video-timeline/src/app/services/              *)
(* playback.service.ts): the playback state, the active media map, the     *)
(* frame loop driven by requestAnimationFrame, and the media elements the  *)
(* service creates, seeks, starts and releases; and of the classes beside  *)
(* it, TimelineHistoryService, TimelineStorageService and                  *)
(* NotificationsComponent.                                                 *)
(*                                                                         *)
(* Times are integer milliseconds.  An element's currentTime is kept in    *)
(* milliseconds m and stands for the double m/1000 the code stores.        *)
(***************************************************************************)
EXTENDS Integers, Sequences, FiniteSets

(***************************************************************************)
(* Bounds of the model.                                                    *)
(***************************************************************************)
\* play() promises that are outstanding at once and will be rejected.
MaxPending == 1
\* Element objects of one item that exist during one step: each released
\* one that is still referenced has such a promise, one is active, and one
\* may be released and replaced within the step.
MaxHandles == MaxPending + 2
\* Time that passes while nothing plays, at most 100 * MaxWait ms.
MaxWait == 4
\* An element's media clock stops at 100 * MaxMedia ms.
MaxMedia == 6

(***************************************************************************)
(* Inputs: the timelines passed to play/seek, and the times drawn.         *)
(***************************************************************************)
VIDEO == "video"
AUDIO == "audio"
IMAGE == "image"

\* An optional field is the empty set (absent) or a singleton.
Item(id, type, startTime, duration, url, mediaStartTime, isPlaceholder) ==
    [id |-> id, type |-> type, startTime |-> startTime, duration |-> duration,
     url |-> url, mediaStartTime |-> mediaStartTime, isPlaceholder |-> isPlaceholder]

Track(id, order, items) == [id |-> id, order |-> order, items |-> items]

v1 == Item("v1", VIDEO, 0, 500, {"v1.mp4"}, {}, FALSE)
a1 == Item("a1", AUDIO, 500, 300, {"a1.mp3"}, {100}, FALSE)
i1 == Item("i1", IMAGE, 0, 500, {"i1.png"}, {}, FALSE)
p1 == Item("p1", VIDEO, 0, 800, {"p1.mp4"}, {}, TRUE)
n1 == Item("n1", AUDIO, 0, 800, {}, {}, FALSE)
z1 == Item("z1", IMAGE, 200, 0, {"z1.png"}, {}, FALSE)
i1Trimmed == Item("i1", IMAGE, 0, 300, {"i1.png"}, {}, FALSE)
x2 == Item("x2", IMAGE, 300, 500, {"x2.png"}, {}, FALSE)

\* The timeline as first laid out, and the same timeline after an edit that
\* swaps the two tracks' order, trims i1 and adds x2.
TracksOf(name) ==
    IF name = "T1"
    THEN << Track("1", 0, << v1, a1 >>), Track("2", 1, << i1, p1, n1, z1 >>) >>
    ELSE << Track("1", 1, << v1, a1 >>), Track("2", 0, << i1Trimmed, x2 >>) >>

TrackSets == {"T1", "T2"}
\* The total duration passed to play() with each timeline: the end of the
\* last item, and a total that ends playback inside the items.
TotalDurationOf(name) == IF name = "T1" THEN 800 ELSE 400
Positions == {0, 100, 499, 500}
\* Time between two readings of the frame clock.
Deltas == {300, 400}
\* Progress of an advancing element between two engine steps.
MediaSteps == {100}
\* The items whose elements have play().  Each step is told for which of
\* them the platform will reject the play() promises made during the step:
\* for none, or for all.
MediaIds == {"v1", "a1"}
Fates == {{}, MediaIds}
\* videoWidth / naturalWidth of the medium behind a url: x2.png is broken.
MediaWidth(url) == IF url = {"x2.png"} THEN 0 ELSE 1920

(***************************************************************************)
(* State.                                                                  *)
(***************************************************************************)
VARIABLES
    isPlaying,          \* _isPlaying
    playheadPosition,   \* _playheadPosition
    animationFrameId,   \* id of the frame request last made, NoFrame for null
    lastFrameTime,      \* clock reading of play() or of the last frame,
                        \* relative to the present instant (see Now)
    activeMediaMap,     \* Map<id, ActiveMedia> in insertion order
    canvas,             \* a canvas has been set
    canvasContext,      \* its 2d context was obtained
    frameRequests,      \* requestAnimationFrame callbacks not yet run
    elements,           \* the media elements created and still referenced
    ev,                 \* what the last step did (history)
    activeMediaItems,   \* the computed signal: whether it was computed, and
                        \* the value it then got
    \* The code that calls TimelineHistoryService and TimelineStorageService
    heap,               \* the objects that are still referenced
    current,            \* the caller's TimelineState object
    returned,           \* what the last undo(), redo() or loadState()
                        \* returned, NullRef for null
    hist,               \* what the caller's last call did (history)
    \* TimelineHistoryService
    undoStack,          \* undoStack(): references to snapshots, oldest first
    redoStack,          \* redoStack()
    \* TimelineStorageService
    localStorage,       \* the item stored under STORAGE_KEY, NullText if none
    lastSaved,          \* the state given to the last saveState() since the
                        \* last clearState(), NullText if none (history)
    \* NotificationsComponent
    notifications,      \* notifications(): the ids of those shown, in order
    timerStates,        \* Map<id, NotificationTimerState>
    progressMap,        \* progressMap(): Map<id, percent>
    progressFrames,     \* requestAnimationFrame callbacks not yet run
    mouseOver,          \* the notifications the mouse is over
    spent,              \* per notification, the time it was shown with the
                        \* mouse off it and with the mouse over it (history)
    toast               \* what the last step of the component did (history)

\* PlaybackService.
playback == << isPlaying, playheadPosition, animationFrameId, lastFrameTime,
               activeMediaMap, canvas, canvasContext, frameRequests, elements, ev,
               activeMediaItems >>

\* The caller of the history and the storage service.
caller == << heap, current, returned, hist >>

\* TimelineHistoryService.
history == << undoStack, redoStack >>

\* TimelineStorageService.
storage == << localStorage, lastSaved >>

\* NotificationsComponent, the mouse and the history of its notifications.
toasts == << notifications, timerStates, progressMap, progressFrames,
             mouseOver, spent, toast >>

\* What the operations of PlaybackService never touch: the other classes
\* and the value of its computed signal.
outside == << caller, history, storage, toasts, activeMediaItems >>

vars == << playback, caller, history, storage, toasts >>

\* animationFrameId = null; requestAnimationFrame returns non-zero ids.
NoFrame == 0

(***************************************************************************)
(* The frame clock.  The service only ever subtracts two readings of       *)
(* performance.now() / the frame timestamp, so the clock's origin is kept  *)
(* at the present instant: a reading taken now is Now, and when d ms pass  *)
(* every stored reading becomes d ms older.                                *)
(***************************************************************************)
Now == 0
Elapsed(reading, d) == reading - d

Min(S) == CHOOSE x \in S : \A y \in S : x <= y
Abs(x) == IF x < 0 THEN 0 - x ELSE x

(***************************************************************************)
(* TimelineHistoryService (its source follows the storage tests in         *)
(* services/timeline-storage.service.spec.ts), TimelineStorageService and  *)
(* the code that calls them.                                               *)
(*                                                                         *)
(* A TimelineState is an object with a number, playheadPosition, and a     *)
(* reference to a second object, its track (tracks[0], with a name; the    *)
(* array in between is left out).  Objects live in a heap under            *)
(* references, so that two holders of one object see each other's writes.  *)
(* The states are JSON data, as TimelineState declares them: strings,      *)
(* numbers, objects.                                                       *)
(***************************************************************************)
\* The history keeps at most this many snapshots: the source's
\* MAX_HISTORY_SIZE is 100, and the model runs it at a small size.
MaxHistorySize == 2
MAX_HISTORY_SIZE == MaxHistorySize

\* null, as a reference and as a serialized value.
NullRef == 0
NullText == [null |-> TRUE]

PlayheadValues == {0, 5000}
TrackNames == {"Track 1", "Modified"}

\* A reference no object has.
Fresh(h) == Min({n \in 1..(Cardinality(DOMAIN h) + 1) : n \notin DOMAIN h})
Allocate(h, ref, object) ==
    [x \in DOMAIN h \cup {ref} |-> IF x = ref THEN object ELSE h[x]]

\* JSON.stringify(state): the text holds values, no references.
Stringify(h, ref) ==
    [tracks |-> << [name |-> h[h[ref].tracks].name] >>,
     playheadPosition |-> h[ref].playheadPosition]

\* JSON.parse(text): builds new objects.
Parse(h, text) ==
    LET track == Fresh(h)
        h1    == Allocate(h, track, [name |-> text.tracks[1].name])
        state == Fresh(h1)
    IN  [heap |-> Allocate(h1, state, [tracks |-> track,
                                       playheadPosition |-> text.playheadPosition]),
         ref  |-> state]

\* Mutation: the state itself is kept, not a copy.
CloneStateShares(h, state) == [heap |-> h, ref |-> state]

\* cloneState(state): JSON.parse(JSON.stringify(state))
CloneState(h, state) == Parse(h, Stringify(h, state))

\* Mutation: a full history drops its newest snapshots.
LimitKeepsOldest(newStack) ==
    IF Len(newStack) > MAX_HISTORY_SIZE
    THEN SubSeq(newStack, 1, MAX_HISTORY_SIZE)
    ELSE newStack

\* "Limit history size": newStack.slice(-MAX_HISTORY_SIZE)
Limit(newStack) ==
    IF Len(newStack) > MAX_HISTORY_SIZE
    THEN SubSeq(newStack, Len(newStack) - MAX_HISTORY_SIZE + 1, Len(newStack))
    ELSE newStack

\* Mutation: the redo stack survives a push.
ClearedKeeps(stack) == stack

\* this.redoStack.set([])
Cleared(stack) == << >>

\* Mutation: undo() takes the oldest snapshot.
TopFirst(stack) == 1

\* stack[stack.length - 1]
Top(stack) == Len(stack)

\* if (stack.length === 0)
NoneLeft(stack) == Len(stack) = 0

\* Mutation: a call that returns null still stores the current state.
RefusedStores(stack, currentState) == Append(stack, currentState)

\* return null: the other stack is left as it is
Refused(stack, currentState) == stack

\* Mutation: the current state is dropped instead of stored.
StoredNowhere(stack, clonedState) == stack

\* s => [...s, this.cloneState(currentState)]
Stored(stack, clonedState) == Append(stack, clonedState)

canUndo == Len(undoStack) > 0
canRedo == Len(redoStack) > 0
undoCount == Len(undoStack)
redoCount == Len(redoStack)

\* The serialized snapshots of a stack, oldest first.
Texts(h, stack) == [i \in 1..Len(stack) |-> Stringify(h, stack[i])]
TextOf(h, ref) == IF ref = NullRef THEN NullText ELSE Stringify(h, ref)

\* The objects the caller holds: its state and the last state it got back.
Held == {current} \cup (IF returned = NullRef THEN {} ELSE {returned})
Which(ref) == IF ref = current THEN "current" ELSE "returned"

\* After a step, objects nobody refers to any more are collected.  The
\* program never looks at a reference's value, only at what it refers to, so
\* the objects left are named by where they are first reached from the undo
\* stack, the redo stack, the caller's state and the result: the i-th of
\* these states is object 2i - 1 and its track is object 2i.
Settle(h, undo, redo, state, result) ==
    LET roots == undo \o redo \o << state >>
                 \o (IF result = NullRef THEN << >> ELSE << result >>)
        FirstState(i) == Min({j \in 1..i : roots[j] = roots[i]})
        FirstTrack(i) == Min({j \in 1..i : h[roots[j]].tracks = h[roots[i]].tracks})
        NameOf(i)     == 2 * FirstState(i) - 1
        TrackOf(i)    == 2 * FirstTrack(i)
        names == {NameOf(i) : i \in DOMAIN roots} \cup {TrackOf(i) : i \in DOMAIN roots}
        lu    == Len(undo)
        lr    == Len(redo)
    IN  [heap     |-> [n \in names |->
                          IF n % 2 = 1
                          THEN [h[roots[(n + 1) \div 2]] EXCEPT
                                   !.tracks = TrackOf((n + 1) \div 2)]
                          ELSE h[h[roots[n \div 2]].tracks]],
         undo     |-> [i \in 1..lu |-> NameOf(i)],
         redo     |-> [i \in 1..lr |-> NameOf(lu + i)],
         current  |-> NameOf(lu + lr + 1),
         returned |-> IF result = NullRef THEN NullRef ELSE NameOf(lu + lr + 2)]

\* The record of a step: the call, the call before it, its argument as a
\* value, the sizes of the stacks before it and, for undo() and redo(), what
\* the stacks held; for a call of the storage service, whether localStorage
\* threw, whether the call threw, and what hasSavedState() returned.
HistLog(op, passed, arg) ==
    [op |-> op, prevOp |-> hist.op, passed |-> passed, arg |-> arg,
     threw |-> FALSE, propagated |-> FALSE, has |-> FALSE,
     undoCountBefore |-> undoCount, redoCountBefore |-> redoCount,
     undoBefore |-> IF op \in {"undo", "redo"} THEN Texts(heap, undoStack)
                    ELSE << >>,
     redoBefore |-> IF op \in {"undo", "redo"} THEN Texts(heap, redoStack)
                    ELSE << >>]

InitHistory ==
    /\ heap = Allocate(Allocate(<< >>, 2, [name |-> "Track 1"]), 1,
                       [tracks |-> 2, playheadPosition |-> 0])
    /\ current = 1
    /\ returned = NullRef
    /\ undoStack = << >>
    /\ redoStack = << >>
    /\ hist = [op |-> "init", prevOp |-> "", passed |-> "", arg |-> NullText,
               threw |-> FALSE, propagated |-> FALSE, has |-> FALSE,
               undoCountBefore |-> 0, redoCountBefore |-> 0,
               undoBefore |-> << >>, redoBefore |-> << >>]

(***************************************************************************)
(* TimelineStorageService (src/unnamed/part_002).  localStorage holds at   *)
(* most one item under STORAGE_KEY, a JSON text; any access to it may      *)
(* throw (storage blocked, quota exceeded).                                *)
(***************************************************************************)
\* The empty string, which no JSON text is.
EmptyText == [empty |-> TRUE]

\* if (serialized): null and '' are falsy
Truthy(serialized) == serialized \notin {NullText, EmptyText}

\* Mutation: clearState leaves the item where it is.
RemoveItemKeeps(item) == item

\* localStorage.removeItem(STORAGE_KEY)
RemoveItem(item) == NullText

\* localStorage.getItem(STORAGE_KEY) !== null
Exists(item) == item # NullText

InitStorage ==
    /\ localStorage = NullText
    /\ lastSaved = NullText

(***************************************************************************)
(* The record of one step: which elements it created, released, started,   *)
(* repositioned, and what it drew.                                         *)
(***************************************************************************)
\* The record also keeps the account of the playing run: due is the
\* playhead at the play() call that started the run plus the time that has
\* passed since that call, idle the time that had passed between the clock
\* reading before that play() and the call.  No account is kept (NoRun)
\* while the service is not playing and after a seek or setPlayheadPosition
\* moved the playhead during the run.
NoRun == 0 - 1

LogOf(op, tracks, position, due, idle) ==
    [op |-> op, tracks |-> tracks, position |-> position,
     created |-> {}, destroyed |-> {}, started |-> << >>,
     paused |-> {}, muted |-> {}, seeked |-> {}, repositioned |-> {},
     painted |-> FALSE, drawn |-> << >>,
     handle |-> << >>, stage |-> "",
     due |-> due, idle |-> idle]

\* The record of a step that takes no time: the run's account goes on.
EmptyLog(op, tracks, position) ==
    LogOf(op, tracks, position,
          IF isPlaying THEN ev.due ELSE NoRun,
          IF isPlaying THEN ev.idle ELSE 0)

\* The playhead was moved from outside, or the run is over.
Untracked(log) == [log EXCEPT !.due = NoRun, !.idle = 0]

\* d ms pass.
Later(log, d) == IF log.due = NoRun THEN log ELSE [log EXCEPT !.due = @ + d]

(***************************************************************************)
(* Items and the Map operations used on the two maps.                      *)
(***************************************************************************)
\* !item.url : an absent or empty url is falsy.
HasUrl(item) == item.url # {} /\ item.url # {""}

\* item.mediaStartTime || 0
MediaStartTimeOf(item) ==
    IF item.mediaStartTime = {} THEN 0 ELSE CHOOSE t \in item.mediaStartTime : TRUE

MapHas(map, id) == \E i \in 1..Len(map) : map[i].id = id
MapGet(map, id) == map[CHOOSE i \in 1..Len(map) : map[i].id = id]
\* Map.set: a new key goes last, an existing key keeps its place.
MapSet(map, id, value) ==
    IF MapHas(map, id)
    THEN [i \in 1..Len(map) |-> IF map[i].id = id THEN value ELSE map[i]]
    ELSE Append(map, value)
MapDelete(map, id) == SelectSeq(map, LAMBDA e : e.id # id)
MapKeys(map) == {map[i].id : i \in 1..Len(map)}

IsMediaElement(el) == el.tag \in {VIDEO, AUDIO}

(***************************************************************************)
(* Media elements.  A step works on m = [map, els, log, used, rejecting,   *)
(* ok]: the active map, the elements, the step's record, the handles seen  *)
(* during the step, the items whose play() promises the platform will      *)
(* reject, and whether the step stayed within the bounds.                  *)
(***************************************************************************)
NewElement(tag, url) ==
    [tag |-> tag, src |-> url, currentTime |-> 0, paused |-> TRUE,
     muted |-> FALSE, loaded |-> FALSE, width |-> 0,
     starting |-> 0, retrying |-> 0]

\* An element nothing refers to any more: not in the map and without a
\* play() promise whose callback holds it.
Collectable(m, h) ==
    /\ \A i \in 1..Len(m.map) : m.map[i].element # h
    /\ m.els[h].starting = 0
    /\ m.els[h].retrying = 0

Collect(m) ==
    LET keep == {h \in DOMAIN m.els : ~Collectable(m, h)}
    IN  [m EXCEPT !.els = [h \in keep |-> m.els[h]]]

\* element.play(): the element is asked to advance and returns a promise.
\* A promise that will be fulfilled has no callback and leaves nothing
\* behind; one that will be rejected stays outstanding until its .catch
\* callback runs (stage says which callback that is).
ElementPlay(m, h, stage) ==
    LET m1 == [m EXCEPT !.els[h].paused = FALSE,
                        !.log.started = Append(@, h)]
    IN  IF h[1] \notin m.rejecting THEN m1
        ELSE IF stage = "start"
        THEN [m1 EXCEPT !.els[h].starting = @ + 1]
        ELSE [m1 EXCEPT !.els[h].retrying = @ + 1]

\* element.pause()
ElementPause(m, h) ==
    [m EXCEPT !.els[h].paused = TRUE, !.log.paused = @ \cup {h}]

Put(f, k, v) == [x \in DOMAIN f \cup {k} |-> IF x = k THEN v ELSE f[x]]

(***************************************************************************)
(* Math.abs(currentMediaTime - expectedMediaTime) > 0.3 on doubles.        *)
(* Both times are k/1000 for integers k.  A gap other than 300 ms is far   *)
(* from 0.3 and the comparison is exact.  At a gap of exactly 300 ms the   *)
(* rounded difference is 0.3 or 0.30000000000000004 depending on the       *)
(* operands: Above300 lists the smaller operand (in ms) of the pairs for   *)
(* which it exceeds 0.3, among the times of the model (multiples of 100    *)
(* and those less one, up to 2000).                                        *)
(***************************************************************************)
DriftTolerance == 300

OnGrid(t) == t >= 0 /\ t <= 2000 /\ t % 100 \in {0, 99}

Above300 ==
    {99, 100, 499, 500, 599, 600, 699, 700, 800, 899, 1000, 1099, 1199, 1200,
     1299, 1300, 1399, 1400, 1500, 1599, 1699, 1700, 1799, 1800, 1900}

DriftExceeds(currentTime, expected) ==
    LET d  == Abs(currentTime - expected)
        lo == IF currentTime < expected THEN currentTime ELSE expected
    IN  CASE d > DriftTolerance -> TRUE
          [] d < DriftTolerance -> FALSE
          [] d = DriftTolerance /\ OnGrid(lo) -> lo \in Above300

(***************************************************************************)
(* startMedia, stopMedia, updateMediaPosition                              *)
(***************************************************************************)
\* An element object is named by its item and a number telling apart the
\* objects made for that item; a new object takes a number no object of
\* the item alive during the step has.
FreeHandles(m, id) == {n \in 1..MaxHandles : << id, n >> \notin m.used}

\* (mediaStartTime + offsetInItem) / 1000, kept in ms
MediaTime(item, playheadTime) ==
    MediaStartTimeOf(item) + (playheadTime - item.startTime)

\* Mutation: every new video or audio element is started (autoplay on load).
StartsOnCreateAlways(type, playing) == type \in {VIDEO, AUDIO}

\* Mutation: no new element is started, playing or not.
StartsOnCreateNever(type, playing) == FALSE

\* Mutation: only the video case calls play().
StartsOnCreateVideoOnly(type, playing) == type = VIDEO /\ playing

\* "Only play if playback is active": the video and audio cases call play()
\* under if (this._isPlaying()), the image case has no play().
StartsOnCreate(type, playing) == type \in {VIDEO, AUDIO} /\ playing

StartMedia(m, item, trackOrder, playheadTime, playing) ==
    IF ~HasUrl(item) \/ item.type \notin {VIDEO, AUDIO, IMAGE} THEN m
    ELSE IF FreeHandles(m, item.id) = {} THEN [m EXCEPT !.ok = FALSE]
    ELSE
      LET h    == << item.id, Min(FreeHandles(m, item.id)) >>
          el   == IF item.type = IMAGE
                  THEN NewElement(IMAGE, item.url)
                  ELSE [NewElement(item.type, item.url) EXCEPT
                          !.currentTime = MediaTime(item, playheadTime)]
          m1   == [m EXCEPT !.els = Put(m.els, h, el),
                            !.used = @ \cup {h},
                            !.log.created = @ \cup {h}]
          \* Only play if playback is active
          m2   == IF StartsOnCreate(item.type, playing)
                  THEN ElementPlay(m1, h, "start") ELSE m1
      IN  [m2 EXCEPT !.map = MapSet(m2.map, item.id,
                [id |-> item.id, item |-> item, element |-> h,
                 trackOrder |-> trackOrder])]

\* pause(); src = ''; load()
StopMedia(m, activeMedia) ==
    LET h  == activeMedia.element
        m1 == [m EXCEPT !.log.destroyed = @ \cup {h}]
    IN  IF IsMediaElement(m.els[h])
        THEN [m1 EXCEPT !.els[h] = [@ EXCEPT !.paused = TRUE, !.src = {""},
                                             !.currentTime = 0, !.loaded = FALSE,
                                             !.width = 0]]
        ELSE m1

UpdateMediaPosition(m, activeMedia, playheadTime) ==
    LET h  == activeMedia.element
        el == m.els[h]
        expectedMediaTime == MediaTime(activeMedia.item, playheadTime)
    IN  IF IsMediaElement(el) /\ DriftExceeds(el.currentTime, expectedMediaTime)
        THEN [m EXCEPT !.els[h].currentTime = expectedMediaTime,
                       !.log.repositioned = @ \cup {<< h, el.currentTime >>}]
        ELSE m

(***************************************************************************)
(* synchronizeMedia                                                        *)
(***************************************************************************)
\* Mutation: the item's end is taken as inside its range.
InRangeInclusiveEnd(item, playheadTime) ==
    playheadTime >= item.startTime /\ playheadTime <= item.startTime + item.duration

\* "Check if playhead is within item's time range"
InRange(item, playheadTime) ==
    LET itemEnd == item.startTime + item.duration
    IN  playheadTime >= item.startTime /\ playheadTime < itemEnd

\* The items of one track that go into shouldBeActive, added to `should`.
RECURSIVE CollectItems(_, _, _, _, _)
CollectItems(should, items, i, order, playheadTime) ==
    IF i > Len(items) THEN should
    ELSE
      LET item    == items[i]
          next    ==
            IF /\ InRange(item, playheadTime)
               /\ ~(item.isPlaceholder \/ ~HasUrl(item))
            THEN MapSet(should, item.id,
                        [id |-> item.id, item |-> item, trackOrder |-> order])
            ELSE should
      IN  CollectItems(next, items, i + 1, order, playheadTime)

RECURSIVE ShouldBeActiveFrom(_, _, _, _)
ShouldBeActiveFrom(should, tracks, t, playheadTime) ==
    IF t > Len(tracks) THEN should
    ELSE ShouldBeActiveFrom(
             CollectItems(should, tracks[t].items, 1, tracks[t].order, playheadTime),
             tracks, t + 1, playheadTime)

ShouldBeActive(tracks, playheadTime) ==
    ShouldBeActiveFrom(<< >>, tracks, 1, playheadTime)

\* Stop media that should no longer be active.
RECURSIVE StopInactive(_, _, _, _)
StopInactive(m, entries, i, should) ==
    IF i > Len(entries) THEN m
    ELSE
      LET e == entries[i]
      IN  IF ~MapHas(should, e.id)
          THEN StopInactive(
                   [StopMedia(m, e) EXCEPT !.map = MapDelete(@, e.id)],
                   entries, i + 1, should)
          ELSE StopInactive(m, entries, i + 1, should)

\* Mutation: every item that should be active gets a new element, active
\* already or not.
RECURSIVE StartOrUpdateAlwaysStarts(_, _, _, _, _)
StartOrUpdateAlwaysStarts(m, should, i, playheadTime, playing) ==
    IF i > Len(should) THEN m
    ELSE StartOrUpdateAlwaysStarts(
             StartMedia(m, should[i].item, should[i].trackOrder, playheadTime, playing),
             should, i + 1, playheadTime, playing)

\* Start or update media that should be active.
RECURSIVE StartOrUpdate(_, _, _, _, _)
StartOrUpdate(m, should, i, playheadTime, playing) ==
    IF i > Len(should) THEN m
    ELSE
      LET s == should[i]
      IN  IF ~MapHas(m.map, s.id)
          THEN StartOrUpdate(
                   StartMedia(m, s.item, s.trackOrder, playheadTime, playing),
                   should, i + 1, playheadTime, playing)
          ELSE StartOrUpdate(
                   UpdateMediaPosition(m, MapGet(m.map, s.id), playheadTime),
                   should, i + 1, playheadTime, playing)

SynchronizeMedia(m, tracks, playheadTime, playing) ==
    LET should == ShouldBeActive(tracks, playheadTime)
        m1     == StopInactive(m, m.map, 1, should)
    IN  StartOrUpdate(m1, should, 1, playheadTime, playing)

(***************************************************************************)
(* renderToCanvas, renderMediaItem                                         *)
(***************************************************************************)
\* Array.prototype.sort((a, b) => b.trackOrder - a.trackOrder): stable,
\* higher trackOrder first.
RECURSIVE InsertSorted(_, _)
InsertSorted(sorted, x) ==
    IF sorted = << >> THEN << x >>
    ELSE IF Head(sorted).trackOrder >= x.trackOrder
         THEN << Head(sorted) >> \o InsertSorted(Tail(sorted), x)
         ELSE << x >> \o sorted

\* Mutation: the entries are drawn in the map's order.
SortByTrackOrderUnsorted(entries) == entries

RECURSIVE SortByTrackOrder(_)
SortByTrackOrder(entries) ==
    IF entries = << >> THEN << >>
    ELSE InsertSorted(SortByTrackOrder(SubSeq(entries, 1, Len(entries) - 1)),
                      entries[Len(entries)])

\* TRUE when renderMediaItem reaches ctx.drawImage for the entry.
Draws(els, activeMedia) ==
    LET el == els[activeMedia.element]
    IN  /\ activeMedia.item.type # AUDIO
        /\ el.tag \in {VIDEO, IMAGE}
        /\ el.loaded            \* readyState >= 2; complete
        /\ el.width # 0         \* videoWidth, naturalWidth (and the heights)

\* Mutation: the paint goes ahead without canvas or context.
RenderToCanvasUnguarded(m, hasCanvas, hasContext) ==
    LET sortedMedia == SortByTrackOrder(m.map)
        drawnMedia  == SelectSeq(sortedMedia, LAMBDA e : Draws(m.els, e))
    IN  [m EXCEPT !.log.painted = TRUE,
                  !.log.drawn = [i \in 1..Len(drawnMedia) |-> drawnMedia[i].id]]

RenderToCanvas(m, hasCanvas, hasContext) ==
    IF ~hasCanvas \/ ~hasContext THEN m
    ELSE
      LET sortedMedia == SortByTrackOrder(m.map)
          drawnMedia  == SelectSeq(sortedMedia, LAMBDA e : Draws(m.els, e))
      IN  [m EXCEPT !.log.painted = TRUE,
                    !.log.drawn = [i \in 1..Len(drawnMedia) |-> drawnMedia[i].id]]

(***************************************************************************)
(* The loops of play, pause, cleanupAllMedia and seek over the active map. *)
(***************************************************************************)
\* Mutation: play() leaves the loaded elements alone.
PlayLoadedNothing(m, entries, i) == m

\* play(): start playing any already-loaded media elements
RECURSIVE PlayLoaded(_, _, _)
PlayLoaded(m, entries, i) ==
    IF i > Len(entries) THEN m
    ELSE
      LET h == entries[i].element
      IN  IF IsMediaElement(m.els[h])
          THEN PlayLoaded(ElementPlay(m, h, "start"), entries, i + 1)
          ELSE PlayLoaded(m, entries, i + 1)

\* Mutation: pause() leaves the media elements running.
PauseActiveNothing(m, entries, i) == m

\* pause(): pause all active media
RECURSIVE PauseActive(_, _, _)
PauseActive(m, entries, i) ==
    IF i > Len(entries) THEN m
    ELSE
      LET h == entries[i].element
      IN  IF IsMediaElement(m.els[h])
          THEN PauseActive(ElementPause(m, h), entries, i + 1)
          ELSE PauseActive(m, entries, i + 1)

RECURSIVE StopAll(_, _, _)
StopAll(m, entries, i) ==
    IF i > Len(entries) THEN m
    ELSE StopAll(StopMedia(m, entries[i]), entries, i + 1)

\* Mutation: the map is not cleared.
CleanupAllMediaKeepsMap(m) == StopAll(m, m.map, 1)

CleanupAllMedia(m) == [StopAll(m, m.map, 1) EXCEPT !.map = << >>]

\* Mutation: an item is dropped by a seek to its very start.
NoLongerActiveAtStart(item, position) ==
    position <= item.startTime \/ position >= item.startTime + item.duration

\* seek(): "Check if media should still be active at new position", on the
\* item kept in the entry.
NoLongerActive(item, position) ==
    LET itemEnd == item.startTime + item.duration
    IN  position < item.startTime \/ position >= itemEnd

\* seek(): update all active media positions
RECURSIVE SeekActive(_, _, _, _)
SeekActive(m, entries, i, position) ==
    IF i > Len(entries) THEN m
    ELSE
      LET e == entries[i]
          h == e.element
      IN  IF NoLongerActive(e.item, position)
          THEN SeekActive(
                   [StopMedia(m, e) EXCEPT !.map = MapDelete(@, e.item.id)],
                   entries, i + 1, position)
          ELSE IF IsMediaElement(m.els[h])
          THEN SeekActive(
                   [m EXCEPT !.els[h].currentTime = MediaTime(e.item, position),
                             !.log.seeked = @ \cup {h}],
                   entries, i + 1, position)
          ELSE SeekActive(m, entries, i + 1, position)

(***************************************************************************)
(* Steps.                                                                  *)
(***************************************************************************)
Begin(op, tracks, position, rejecting) ==
    [map |-> activeMediaMap, els |-> elements,
     log |-> EmptyLog(op, tracks, position),
     used |-> DOMAIN elements, rejecting |-> rejecting, ok |-> TRUE]

\* The outstanding play() promises that will be rejected.
Outstanding(els) ==
    {x \in (DOMAIN els) \X {"start", "retry"} \X (1..(MaxPending + 1)) :
        x[3] <= IF x[2] = "start" THEN els[x[1]].starting ELSE els[x[1]].retrying}

\* The step's result becomes the state, if it stayed within the bounds.
Commit(m) ==
    /\ m.ok
    /\ \A h \in DOMAIN m.els : /\ m.els[h].starting <= MaxPending + 1
                                /\ m.els[h].retrying <= MaxPending + 1
    /\ Cardinality(Outstanding(m.els)) <= MaxPending
    /\ activeMediaMap' = m.map
    /\ elements' = Collect(m).els
    /\ ev' = m.log

\* requestAnimationFrame: an id no pending request has.  (Every caller
\* overwrites animationFrameId with it, so an id of a request that already
\* ran can be handed out again.)
NewFrameId(pending) ==
    Min({n \in 1..(Cardinality(pending) + 1) : \A r \in pending : r.id # n})

(***************************************************************************)
(* NotificationsComponent (components/notifications/                       *)
(* notifications.component.ts).  Date.now() is read on the clock of Now:   *)
(* a startTime is kept relative to the present instant.  A notification's  *)
(* id is a number, where the code makes a string no other notification has.*)
(***************************************************************************)
AUTO_DISMISS_DELAY == 4000

\* At most this many notifications are shown at once, and a notification is
\* followed for this many seconds.
MaxNotifications == 1
MaxSeconds == 6
Pauses == {1000, 2000}

With(f, k, v) == [x \in DOMAIN f \cup {k} |-> IF x = k THEN v ELSE f[x]]
Without(f, k) == [x \in DOMAIN f \ {k} |-> f[x]]

\* Math.max(0, x)
Max0(x) == IF x < 0 THEN 0 ELSE x

\* stopProgressAnimation(id): cancelAnimationFrame(state.animationFrameId)
StopProgressAnimation(n, id) ==
    IF id \in DOMAIN n.timers /\ n.timers[id].animationFrameId # NoFrame
    THEN [n EXCEPT !.frames = {r \in @ : r.id # n.timers[id].animationFrameId},
                   !.timers[id].animationFrameId = NoFrame]
    ELSE n

\* dismissNotification(id)
Dismiss(n, id) ==
    LET stopped == StopProgressAnimation(n, id)
    IN  [stopped EXCEPT !.timers = Without(@, id),
                   !.list = SelectSeq(@, LAMBDA x : x # id),
                   !.progress = Without(@, id)]

\* "Dismiss when progress reaches 0": if (remaining <= 0)
TimeIsUp(remaining) == remaining <= 0

\* The time a notification has left, read at the present instant:
\* Math.max(0, remainingTime - (Date.now() - startTime)), or remainingTime
\* as it was stored while the countdown is paused.
Remaining(state) ==
    IF state.isPaused THEN state.remainingTime
    ELSE Max0(state.remainingTime - (Now - state.startTime))

\* The closure `animate` of startProgressAnimation(id).
AnimateProgress(n, id) ==
    IF id \notin DOMAIN n.timers \/ n.timers[id].isPaused THEN n
    ELSE LET currentState == n.timers[id]
             elapsed   == Now - currentState.startTime
             remaining == Max0(currentState.remainingTime - elapsed)
             progressPercent == (remaining * 100) \div AUTO_DISMISS_DELAY
             updated == [n EXCEPT !.progress = With(@, id, progressPercent)]
             frame == NewFrameId(updated.frames)
         IN  IF TimeIsUp(remaining)
             THEN [Dismiss(updated, id) EXCEPT !.auto = id]
             ELSE [updated EXCEPT !.timers[id].animationFrameId = frame,
                             !.frames = @ \cup {[id |-> frame, note |-> id]}]

StartProgressAnimation(n, id) ==
    IF id \notin DOMAIN n.timers THEN n
    ELSE AnimateProgress(StopProgressAnimation(n, id), id)

\* Mutation: the countdown goes on from when it first started.
RestartedNever(startTime) == startTime

\* onNotificationMouseLeave: state.startTime = Date.now()
Restarted(startTime) == Now

InitNotifications ==
    /\ notifications = << >>
    /\ timerStates = << >>
    /\ progressMap = << >>
    /\ progressFrames = {}
    /\ mouseOver = {}
    /\ spent = << >>
    /\ toast = [op |-> "init", id |-> 0, auto |-> 0, unhovered |-> 0,
                hovered |-> 0]

(***************************************************************************)
(* The state after construction.                                           *)
(***************************************************************************)
Init ==
    /\ isPlaying = FALSE
    /\ playheadPosition = 0
    /\ animationFrameId = NoFrame
    /\ lastFrameTime = 0
    /\ activeMediaMap = << >>
    /\ canvas = FALSE
    /\ canvasContext = FALSE
    /\ frameRequests = {}
    /\ elements = << >>
    /\ ev = LogOf("init", "", 0, NoRun, 0)
    /\ activeMediaItems = [computed |-> FALSE, value |-> << >>]
    /\ InitHistory
    /\ InitStorage
    /\ InitNotifications

\* setCanvas(canvas); getContext('2d') may return null.
SetCanvas(context) ==
    /\ canvas' = TRUE
    /\ canvasContext' = context
    /\ ev' = EmptyLog("setCanvas", "", playheadPosition)
    /\ UNCHANGED << outside, isPlaying, playheadPosition, animationFrameId, lastFrameTime,
                    activeMediaMap, frameRequests, elements >>

\* Mutation: setting the playhead also stops the frame loop.
SetPlayheadPositionPauses(position) ==
    /\ playheadPosition' = position
    /\ isPlaying' = FALSE
    /\ frameRequests' = {}
    /\ animationFrameId' = NoFrame
    /\ ev' = Untracked(EmptyLog("setPlayheadPosition", "", position))
    /\ UNCHANGED << outside, lastFrameTime, activeMediaMap, canvas, canvasContext, elements >>

SetPlayheadPosition(position) ==
    /\ playheadPosition' = position
    /\ ev' = Untracked(EmptyLog("setPlayheadPosition", "", position))
    /\ UNCHANGED << outside, isPlaying, animationFrameId, lastFrameTime, activeMediaMap,
                    canvas, canvasContext, frameRequests, elements >>

\* Mutation: play() keeps the clock reading it finds.
ClockAtPlayKept(last) == last

\* this.lastFrameTime = performance.now()
ClockAtPlay(last) == Now

\* Mutation: play() goes on when already playing.
AlreadyPlayingNever(playing) == FALSE

\* if (this._isPlaying()) return;
AlreadyPlaying(playing) == playing

Play(tracks, totalDuration, rejecting) ==
    IF AlreadyPlaying(isPlaying)
    THEN /\ ev' = EmptyLog("play", tracks, playheadPosition)
         /\ UNCHANGED << outside, isPlaying, playheadPosition, animationFrameId,
                         lastFrameTime, activeMediaMap, canvas, canvasContext,
                         frameRequests, elements >>
    ELSE LET m  == PlayLoaded(Begin("play", tracks, playheadPosition, rejecting),
                              activeMediaMap, 1)
             id == NewFrameId(frameRequests)
         IN  /\ isPlaying' = TRUE
             /\ lastFrameTime' = ClockAtPlay(lastFrameTime)
             /\ animationFrameId' = id
             /\ frameRequests' = frameRequests \cup
                    {[id |-> id, tracks |-> tracks, totalDuration |-> totalDuration]}
             /\ Commit([m EXCEPT !.log.due = playheadPosition,
                                  !.log.idle = Now - lastFrameTime])
             /\ UNCHANGED << outside, playheadPosition, canvas, canvasContext >>

\* Mutation: the request is not cancelled.
CancelNothing(pending, id) == pending

\* cancelAnimationFrame(animationFrameId)
Cancel(pending, id) == {r \in pending : r.id # id}

Pause ==
    LET m == PauseActive(Begin("pause", "", playheadPosition, {}), activeMediaMap, 1)
    IN  /\ isPlaying' = FALSE
        /\ frameRequests' = IF animationFrameId # NoFrame
                            THEN Cancel(frameRequests, animationFrameId)
                            ELSE frameRequests
        /\ animationFrameId' = NoFrame
        /\ Commit([m EXCEPT !.log = Untracked(@)])
        /\ UNCHANGED << outside, playheadPosition, lastFrameTime, canvas, canvasContext >>

Stop ==
    LET m == CleanupAllMedia(
                 PauseActive(Begin("stop", "", 0, {}), activeMediaMap, 1))
    IN  /\ isPlaying' = FALSE
        /\ frameRequests' = IF animationFrameId # NoFrame
                            THEN Cancel(frameRequests, animationFrameId)
                            ELSE frameRequests
        /\ animationFrameId' = NoFrame
        /\ playheadPosition' = 0
        /\ Commit([m EXCEPT !.log = Untracked(@)])
        /\ UNCHANGED << outside, lastFrameTime, canvas, canvasContext >>

\* Mutation: a tick that lands exactly on the end goes on playing.
ReachedEndExclusive(newPosition, totalDuration) == newPosition > totalDuration

\* "Check if we've reached the end"
ReachedEnd(newPosition, totalDuration) == newPosition >= totalDuration

\* Mutation: the callback never requests the next frame.
ReschedulesNever(playing) == FALSE

\* Mutation: the next frame is requested whether playing or not.
ReschedulesAlways(playing) == TRUE

\* "Continue animation loop": if (this._isPlaying())
Reschedules(playing) == playing

\* Mutation: the frame callback takes the track list of the latest seek.
LoopTracksOfLatestSeek(req, last) ==
    IF last.op = "seek" THEN last.tracks ELSE req.tracks

\* `tracks` inside animate: the parameter of the startPlaybackLoop call that
\* made the closure, whatever the last step was.
LoopTracks(req, last) == req.tracks

\* The frame callback `animate` of startPlaybackLoop(tracks, totalDuration),
\* run for the pending request req, d ms after the last clock reading.
Animate(req, d, rejecting) ==
    /\ req \in frameRequests
    /\ IF ~isPlaying
       THEN /\ frameRequests' = frameRequests \ {req}
            /\ ev' = EmptyLog("animateReturn", req.tracks, playheadPosition)
            /\ UNCHANGED << outside, isPlaying, playheadPosition, animationFrameId,
                            lastFrameTime, activeMediaMap, canvas, canvasContext,
                            elements >>
       ELSE LET currentTime == Now
                deltaTime   == currentTime - Elapsed(lastFrameTime, d)
                reachedEnd  == ReachedEnd(playheadPosition + deltaTime,
                                          req.totalDuration)
                newPosition == IF reachedEnd THEN req.totalDuration
                               ELSE playheadPosition + deltaTime
                tracks  == LoopTracks(req, ev)
                m0      == Begin("animate", tracks, newPosition, rejecting)
                \* this.pause() at the end of the timeline
                m1      == IF reachedEnd THEN PauseActive(m0, m0.map, 1) ELSE m0
                pending == IF reachedEnd /\ animationFrameId # NoFrame
                           THEN Cancel(frameRequests \ {req}, animationFrameId)
                           ELSE frameRequests \ {req}
                m2      == SynchronizeMedia(m1, TracksOf(tracks), newPosition,
                                            ~reachedEnd)
                m3      == RenderToCanvas(m2, canvas, canvasContext)
                id      == NewFrameId(pending)
            IN  /\ lastFrameTime' = currentTime
                /\ playheadPosition' = newPosition
                /\ isPlaying' = ~reachedEnd
                /\ animationFrameId' = IF Reschedules(~reachedEnd) THEN id
                                       ELSE NoFrame
                /\ frameRequests' =
                       IF ~Reschedules(~reachedEnd) THEN pending
                       ELSE pending \cup {[id |-> id, tracks |-> req.tracks,
                                           totalDuration |-> req.totalDuration]}
                /\ Commit([m3 EXCEPT !.log = Later(@, d)])
                /\ UNCHANGED << outside, canvas, canvasContext >>

Seek(tracks, position, rejecting) ==
    LET m0 == Begin("seek", tracks, position, rejecting)
        m1 == SeekActive(m0, m0.map, 1, position)
        m2 == SynchronizeMedia(m1, TracksOf(tracks), position, isPlaying)
        m3 == RenderToCanvas(m2, canvas, canvasContext)
    IN  /\ playheadPosition' = position
        /\ Commit([m3 EXCEPT !.log = Untracked(@)])
        /\ UNCHANGED << outside, isPlaying, animationFrameId, lastFrameTime, canvas,
                        canvasContext, frameRequests >>

RenderCurrentFrame ==
    LET m == RenderToCanvas(Begin("renderCurrentFrame", "", playheadPosition, {}),
                            canvas, canvasContext)
    IN  /\ Commit(m)
        /\ UNCHANGED << outside, isPlaying, playheadPosition, animationFrameId,
                        lastFrameTime, canvas, canvasContext, frameRequests >>

(***************************************************************************)
(* The platform: media clocks advance, media loads, play() promises settle.*)
(***************************************************************************)
ActiveHandles == {activeMediaMap[i].element : i \in 1..Len(activeMediaMap)}

\* An element that was asked to play and not paused since moves on by d ms.
MediaAdvance(h, d) ==
    /\ h \in ActiveHandles
    /\ IsMediaElement(elements[h])
    /\ ~elements[h].paused
    /\ elements[h].currentTime + d <= 100 * MaxMedia
    /\ elements' = [elements EXCEPT ![h].currentTime = @ + d]
    /\ ev' = EmptyLog("platform", "", playheadPosition)
    /\ UNCHANGED << outside, isPlaying, playheadPosition, animationFrameId, lastFrameTime,
                    activeMediaMap, canvas, canvasContext, frameRequests >>

\* Time passes between two calls or callbacks.
Wait(d) ==
    /\ Now - Elapsed(lastFrameTime, d) <= 100 * MaxWait
    /\ lastFrameTime' = Elapsed(lastFrameTime, d)
    /\ ev' = Later(EmptyLog("platform", "", playheadPosition), d)
    /\ UNCHANGED << outside, isPlaying, playheadPosition, animationFrameId, activeMediaMap,
                    canvas, canvasContext, frameRequests, elements >>

\* A video gets its first frame (readyState >= 2) or an image completes.
MediaLoaded(h) ==
    /\ h \in ActiveHandles
    /\ elements[h].tag \in {VIDEO, IMAGE}
    /\ ~elements[h].loaded
    /\ elements' = [elements EXCEPT ![h].loaded = TRUE,
                                    ![h].width = MediaWidth(elements[h].src)]
    /\ ev' = EmptyLog("platform", "", playheadPosition)
    /\ UNCHANGED << outside, isPlaying, playheadPosition, animationFrameId, lastFrameTime,
                    activeMediaMap, canvas, canvasContext, frameRequests >>

\* Mutation: the retry is made without muting the video.
OnPlayRejectedUnmuted(m, h, stage) ==
    IF stage = "start"
    THEN LET m1 == [m EXCEPT !.els[h].starting = @ - 1]
         IN  IF m.els[h].tag = VIDEO THEN ElementPlay(m1, h, "retry") ELSE m1
    ELSE [m EXCEPT !.els[h].retrying = @ - 1]

\* The .catch callback of a play() promise.  For the first play() of a
\* video: muted = true and play() again, with an empty callback.  For an
\* audio element and for the second play() of a video: () => {}.
OnPlayRejected(m, h, stage) ==
    IF stage = "start"
    THEN LET m1 == [m EXCEPT !.els[h].starting = @ - 1]
         IN  IF m.els[h].tag = VIDEO
             THEN ElementPlay([m1 EXCEPT !.els[h].muted = TRUE,
                                         !.log.muted = @ \cup {h}], h, "retry")
             ELSE m1
    ELSE [m EXCEPT !.els[h].retrying = @ - 1]

\* The platform rejects an outstanding play() promise of element h.
PlayRejected(h, stage, rejecting) ==
    /\ IF stage = "start" THEN elements[h].starting > 0
                          ELSE elements[h].retrying > 0
    /\ LET m0 == Begin("rejected", "", playheadPosition, rejecting)
           m1 == OnPlayRejected(m0, h, stage)
       IN  Commit([m1 EXCEPT !.log.handle = h, !.log.stage = stage])
    /\ UNCHANGED << outside, isPlaying, playheadPosition, animationFrameId, lastFrameTime,
                    canvas, canvasContext, frameRequests >>

\* The operations of the service and its frame callback, called with the
\* timelines of trackSets; fates are the sets of items whose play() promises
\* a step may see rejected.
Engine(trackSets, fates) ==
    \/ \E position \in Positions : SetPlayheadPosition(position)
    \/ \E tracks \in trackSets, rejecting \in fates :
          Play(tracks, TotalDurationOf(tracks), rejecting)
    \/ Pause
    \/ Stop
    \/ \E req \in frameRequests, d \in Deltas, rejecting \in fates :
          Animate(req, d, rejecting)
    \/ \E tracks \in trackSets, position \in Positions, rejecting \in fates :
          Seek(tracks, position, rejecting)
    \/ RenderCurrentFrame

Rejections ==
    \E h \in DOMAIN elements, stage \in {"start", "retry"} :
       \E rejecting \in Fates : PlayRejected(h, stage, rejecting)

\* The service on the first timeline, with a platform that rejects play()
\* promises.
NextStart ==
    \/ Engine({"T1"}, Fates)
    \/ Rejections

SpecStart == Init /\ [][NextStart]_vars

\* The service with media clocks that run on their own.
NextDrift ==
    \/ Engine(TrackSets, {{}})
    \/ \E h \in DOMAIN elements, d \in MediaSteps : MediaAdvance(h, d)

SpecDrift == Init /\ [][NextDrift]_vars

\* The service with a canvas and media that load.
NextPaint ==
    \/ Engine(TrackSets, {{}})
    \/ \E context \in BOOLEAN : SetCanvas(context)
    \/ \E h \in DOMAIN elements : MediaLoaded(h)

SpecPaint == Init /\ [][NextPaint]_vars

\* The service with time passing between its calls.
NextClock ==
    \/ Engine(TrackSets, {{}})
    \/ \E d \in Deltas : Wait(d)

SpecClock == Init /\ [][NextClock]_vars

\* The browser delivers a pending frame callback, a positive time after
\* the last clock reading.
Tick == \E req \in frameRequests, d \in Deltas : Animate(req, d, {})

\* A frame callback can run as soon as one is pending: this is
\* ENABLED << Tick >>_vars, as a state predicate.  (animate has no guard
\* but the request, and every element the step makes finds a free handle,
\* since the released ones are collected at the end of each step.)
TickEnabled == frameRequests # {}

\* The browser does not withhold a pending frame callback for ever: weak
\* fairness of Tick, WF_vars(Tick), written out with TickEnabled for the
\* enabling condition.
FramesDelivered == []<>(~TickEnabled) \/ []<><< Tick >>_vars

\* A playing run that is left alone: the operations of the service are
\* called, and time passes, only while it is not playing; once play() was
\* called there are only frame callbacks, and the browser keeps delivering
\* them as long as one is pending.
NextRun ==
    \/ ~isPlaying /\ \E position \in Positions : SetPlayheadPosition(position)
    \/ ~isPlaying /\ \E tracks \in TrackSets, position \in Positions :
                        Seek(tracks, position, {})
    \/ ~isPlaying /\ \E d \in Deltas : Wait(d)
    \/ ~isPlaying /\ \E tracks \in TrackSets :
                        Play(tracks, TotalDurationOf(tracks), {})
    \/ Tick

SpecRun == Init /\ [][NextRun]_vars /\ FramesDelivered

(***************************************************************************)
(* The computed signal activeMediaItems.  Its function reads the Map       *)
(* activeMediaMap and no signal, so nothing ever marks it as out of date:  *)
(* it is computed at the first read and that value is returned from then   *)
(* on.                                                                     *)
(***************************************************************************)
\* A computed signal is recomputed at a read if it was never computed or a
\* signal that its function read has changed since: here there is none.
MustRecompute(node) == ~node.computed

\* activeMediaItems()
ReadActiveMediaItems ==
    /\ activeMediaItems' =
           IF MustRecompute(activeMediaItems)
           THEN [computed |-> TRUE, value |-> SortByTrackOrder(activeMediaMap)]
           ELSE activeMediaItems
    /\ ev' = EmptyLog("activeMediaItems", "", playheadPosition)
    /\ UNCHANGED << isPlaying, playheadPosition, animationFrameId, lastFrameTime,
                    activeMediaMap, canvas, canvasContext, frameRequests,
                    elements, caller, history, storage, toasts >>

\* The service and a reader of activeMediaItems.
NextReadout ==
    \/ Engine({"T1"}, {{}})
    \/ ReadActiveMediaItems

SpecReadout == Init /\ [][NextReadout]_vars

(***************************************************************************)
(* The operations of TimelineHistoryService, called with a state the       *)
(* caller holds, and the caller's own writes to the states it holds.       *)
(***************************************************************************)
\* The state after a call that left the stacks undo and redo and returned
\* result, in the heap h.
Return(h, undo, redo, result) ==
    LET s == Settle(h, undo, redo, current, result)
    IN  /\ heap' = s.heap
        /\ undoStack' = s.undo
        /\ redoStack' = s.redo
        /\ current' = s.current
        /\ returned' = s.returned
        /\ UNCHANGED << playback, toasts >>

PushState(state) ==
    LET clonedState == CloneState(heap, state)
        newStack    == Append(undoStack, clonedState.ref)
    IN  /\ Return(clonedState.heap, Limit(newStack), Cleared(redoStack), returned)
        /\ hist' = HistLog("pushState", Which(state), Stringify(heap, state))
        /\ UNCHANGED storage

Undo(currentState) ==
    LET stack == undoStack
    IN  /\ hist' = HistLog("undo", Which(currentState),
                           Stringify(heap, currentState))
        /\ UNCHANGED storage
        /\ IF NoneLeft(stack)
           THEN Return(heap, undoStack, Refused(redoStack, currentState), NullRef)
           ELSE LET previousState == stack[Top(stack)]
                    pushed == CloneState(heap, currentState)
                    result == CloneState(pushed.heap, previousState)
                IN  Return(result.heap, SubSeq(stack, 1, Len(stack) - 1),
                           Stored(redoStack, pushed.ref), result.ref)

Redo(currentState) ==
    LET stack == redoStack
    IN  /\ hist' = HistLog("redo", Which(currentState),
                           Stringify(heap, currentState))
        /\ UNCHANGED storage
        /\ IF NoneLeft(stack)
           THEN Return(heap, Refused(undoStack, currentState), redoStack, NullRef)
           ELSE LET nextState == stack[Top(stack)]
                    pushed == CloneState(heap, currentState)
                    result == CloneState(pushed.heap, nextState)
                IN  Return(result.heap, Stored(undoStack, pushed.ref),
                           SubSeq(stack, 1, Len(stack) - 1), result.ref)

ClearHistory ==
    /\ Return(heap, << >>, << >>, returned)
    /\ hist' = HistLog("clearHistory", "", NullText)
    /\ UNCHANGED storage

\* The caller writes to a state it holds: state.playheadPosition = position
WritePlayhead(state, position) ==
    /\ heap[state].playheadPosition # position
    /\ heap' = [heap EXCEPT ![state].playheadPosition = position]
    /\ hist' = HistLog("write", Which(state), NullText)
    /\ UNCHANGED << playback, toasts, current, returned, history, storage >>

\* ... and state.tracks[0].name = name
WriteTrackName(state, name) ==
    /\ heap[heap[state].tracks].name # name
    /\ heap' = [heap EXCEPT ![heap[state].tracks].name = name]
    /\ hist' = HistLog("write", Which(state), NullText)
    /\ UNCHANGED << playback, toasts, current, returned, history, storage >>

NextHistory ==
    \/ \E state \in Held : PushState(state)
    \/ \E state \in Held : Undo(state)
    \/ \E state \in Held : Redo(state)
    \/ ClearHistory
    \/ \E state \in Held, position \in PlayheadValues :
          WritePlayhead(state, position)
    \/ \E state \in Held, name \in TrackNames : WriteTrackName(state, name)

SpecHistory == Init /\ [][NextHistory]_vars

(***************************************************************************)
(* The operations of TimelineStorageService; throws says whether the       *)
(* access to localStorage made by the call throws.                         *)
(***************************************************************************)
SaveState(state, throws) ==
    LET serialized == Stringify(heap, state)
    IN  /\ localStorage' = IF throws THEN localStorage ELSE serialized
        /\ lastSaved' = Stringify(heap, state)
        /\ hist' = [HistLog("saveState", Which(state), Stringify(heap, state))
                       EXCEPT !.threw = throws]
        /\ UNCHANGED << playback, toasts, heap, current, returned, history >>

LoadState(throws) ==
    LET serialized == localStorage
        parsed     == Parse(heap, serialized)
    IN  /\ IF ~throws /\ Truthy(serialized)
           THEN Return(parsed.heap, undoStack, redoStack, parsed.ref)
           ELSE Return(heap, undoStack, redoStack, NullRef)
        /\ hist' = [HistLog("loadState", "", NullText) EXCEPT !.threw = throws]
        /\ UNCHANGED storage

ClearState(throws) ==
    /\ localStorage' = IF throws THEN localStorage ELSE RemoveItem(localStorage)
    /\ lastSaved' = NullText
    /\ hist' = [HistLog("clearState", "", NullText) EXCEPT !.threw = throws]
    /\ UNCHANGED << playback, toasts, heap, current, returned, history >>

\* No try around the access: what localStorage throws, the call throws.
HasSavedState(throws) ==
    /\ hist' = [HistLog("hasSavedState", "", NullText) EXCEPT
                   !.threw = throws,
                   !.propagated = throws,
                   !.has = IF throws THEN FALSE ELSE Exists(localStorage)]
    /\ UNCHANGED << playback, toasts, heap, current, returned, history, storage >>

\* The service on a localStorage whose accesses throw as faults allows.
Storage(faults) ==
    \/ \E state \in Held, throws \in faults : SaveState(state, throws)
    \/ \E throws \in faults : LoadState(throws)
    \/ \E throws \in faults : ClearState(throws)
    \/ \E throws \in faults : HasSavedState(throws)

\* The caller's writes to the states it holds.
Writes ==
    \/ \E state \in Held, position \in PlayheadValues :
          WritePlayhead(state, position)
    \/ \E state \in Held, name \in TrackNames : WriteTrackName(state, name)

\* The service on a working localStorage.
NextStorage ==
    \/ Storage({FALSE})
    \/ Writes

SpecStorage == Init /\ [][NextStorage]_vars

\* The service on a localStorage that may throw.
NextFaults ==
    \/ Storage(BOOLEAN)
    \/ Writes

SpecFaults == Init /\ [][NextFaults]_vars

(***************************************************************************)
(* The operations of NotificationsComponent, its frame callback, the mouse *)
(* and the clock.                                                          *)
(***************************************************************************)
\* The component's state at the start of a step.
Toasts ==
    [timers |-> timerStates, progress |-> progressMap, list |-> notifications,
     frames |-> progressFrames, auto |-> 0]

\* The step's result becomes the state; op and id say what was called, over
\* which notifications the mouse is now over, sp the times spent.
Shown(n, op, id, over, sp) ==
    /\ timerStates' = n.timers
    /\ progressMap' = n.progress
    /\ notifications' = n.list
    /\ progressFrames' = n.frames
    /\ mouseOver' = over \cap DOMAIN n.timers
    /\ spent' = [x \in DOMAIN n.timers |-> sp[x]]
    /\ toast' = [op |-> op, id |-> id, auto |-> n.auto,
                 unhovered |-> IF n.auto = 0 THEN 0 ELSE sp[n.auto].unhovered,
                 hovered |-> IF n.auto = 0 THEN 0 ELSE sp[n.auto].hovered]
    /\ UNCHANGED << playback, caller, history, storage >>

ShowNotification ==
    /\ Len(notifications) < MaxNotifications
    /\ LET id == Min({x \in 1..(Len(notifications) + 1) :
                         x \notin DOMAIN timerStates})
           n  == [Toasts EXCEPT
                     !.timers = With(@, id, [animationFrameId |-> NoFrame,
                                             startTime |-> Now,
                                             remainingTime |-> AUTO_DISMISS_DELAY,
                                             isPaused |-> FALSE]),
                     !.progress = With(@, id, 100),
                     !.list = Append(@, id)]
       IN  Shown(StartProgressAnimation(n, id), "showNotification", id,
                 mouseOver, With(spent, id, [unhovered |-> 0, hovered |-> 0]))

\* The dismiss button of a notification that is shown.
DismissNotification(id) ==
    /\ id \in DOMAIN timerStates
    /\ Shown(Dismiss(Toasts, id), "dismissNotification", id, mouseOver, spent)

\* The mouse moves onto a notification.
OnNotificationMouseEnter(id) ==
    /\ id \in DOMAIN timerStates
    /\ id \notin mouseOver
    /\ LET state == timerStates[id]
           elapsed == Now - state.startTime
           n == IF ~state.isPaused
                THEN StopProgressAnimation(
                         [Toasts EXCEPT
                             !.timers[id].remainingTime = Max0(@ - elapsed),
                             !.timers[id].isPaused = TRUE], id)
                ELSE Toasts
       IN  Shown(n, "mouseEnter", id, mouseOver \cup {id}, spent)

\* The mouse moves off a notification.
OnNotificationMouseLeave(id) ==
    /\ id \in DOMAIN timerStates
    /\ id \in mouseOver
    /\ LET state == timerStates[id]
           n == IF state.isPaused
                THEN StartProgressAnimation(
                         [Toasts EXCEPT
                             !.timers[id].isPaused = FALSE,
                             !.timers[id].startTime = Restarted(@)], id)
                ELSE Toasts
       IN  Shown(n, "mouseLeave", id, mouseOver \ {id}, spent)

\* The requestAnimationFrame callback of a notification's countdown runs.
ProgressFrame(req) ==
    /\ req \in progressFrames
    /\ Shown(AnimateProgress([Toasts EXCEPT !.frames = @ \ {req}], req.note),
             "frame", req.note, mouseOver, spent)

\* d ms pass while notifications are shown.
Elapse(d) ==
    /\ notifications # << >>
    /\ \A id \in DOMAIN spent :
          spent[id].unhovered + spent[id].hovered + d <= 1000 * MaxSeconds
    /\ Shown([Toasts EXCEPT !.timers = [id \in DOMAIN @ |->
                                [@[id] EXCEPT !.startTime = Elapsed(@, d)]]],
             "elapse", 0, mouseOver,
             [id \in DOMAIN spent |->
                 IF id \in mouseOver
                 THEN [spent[id] EXCEPT !.hovered = @ + d]
                 ELSE [spent[id] EXCEPT !.unhovered = @ + d]])

NextNotifications ==
    \/ ShowNotification
    \/ \E id \in DOMAIN timerStates : DismissNotification(id)
    \/ \E id \in DOMAIN timerStates : OnNotificationMouseEnter(id)
    \/ \E id \in DOMAIN timerStates : OnNotificationMouseLeave(id)
    \/ \E req \in progressFrames : ProgressFrame(req)
    \/ \E d \in Pauses : Elapse(d)

SpecNotifications == Init /\ [][NextNotifications]_vars

\* Everything: the playback service, the clock, the canvas, loading, the
\* media clocks, rejected play() promises and a reader of activeMediaItems;
\* the history and the storage service and their caller; the notifications.
Next ==
    \/ Engine(TrackSets, Fates)
    \/ \E context \in BOOLEAN : SetCanvas(context)
    \/ \E h \in DOMAIN elements, d \in MediaSteps : MediaAdvance(h, d)
    \/ \E h \in DOMAIN elements : MediaLoaded(h)
    \/ \E d \in Deltas : Wait(d)
    \/ Rejections
    \/ ReadActiveMediaItems
    \/ NextHistory
    \/ Storage(BOOLEAN)
    \/ NextNotifications

Spec == Init /\ [][Next]_vars

(***************************************************************************)
(* Properties.                                                             *)
(***************************************************************************)
AllItems(tracks) ==
    UNION {{tracks[t].items[i] : i \in 1..Len(tracks[t].items)} : t \in 1..Len(tracks)}

\* The items a pass over `tracks` at playhead p has to keep active.
DesiredIds(tracks, p) ==
    {item.id : item \in {x \in AllItems(tracks) :
                            /\ ~x.isPlaceholder
                            /\ x.url # {} /\ x.url # {""}
                            /\ x.startTime <= p
                            /\ p < x.startTime + x.duration}}

Count(seq, x) == Cardinality({i \in 1..Len(seq) : seq[i] = x})

\* The last step was a synchronization pass: a seek or a frame tick.
SyncPass == ev.op \in {"seek", "animate"}

EntryOf(map, h) == map[CHOOSE i \in 1..Len(map) : map[i].element = h]

\* C1: after every synchronization pass (seek or frame tick) over a track
\* set at playhead p, the ids of the active map are exactly the ids of the
\* items that are no placeholder, have a url and satisfy
\* startTime <= p < startTime + duration, each id once.
C1_ActiveSetExact ==
    SyncPass =>
        /\ ev.position = playheadPosition
        /\ MapKeys(activeMediaMap) = DesiredIds(TracksOf(ev.tracks), playheadPosition)
        /\ Cardinality(MapKeys(activeMediaMap)) = Len(activeMediaMap)

\* A frame tick brought the playhead to 500 = v1's start + duration: v1 was
\* released and a1, which starts at 500, was created.
C1_Witness ==
    /\ ev.op = "animate"
    /\ ev.tracks = "T1"
    /\ playheadPosition = 500
    /\ << "v1", 1 >> \in ev.destroyed
    /\ << "a1", 1 >> \in ev.created
    /\ MapKeys(activeMediaMap) = {"a1"}

\* C2: a seek made while not playing starts no element, neither one it
\* creates nor one that was active already; each video or audio element it
\* creates is positioned at the item's media time and stays paused.
C2_SeekLoadsWithoutPlaying ==
    (ev.op = "seek" /\ ~isPlaying) =>
        /\ ev.started = << >>
        /\ \A h \in ev.created :
              /\ h \in DOMAIN elements
              /\ IsMediaElement(elements[h]) =>
                    /\ elements[h].currentTime =
                           MediaTime(EntryOf(activeMediaMap, h).item, playheadPosition)
                    /\ elements[h].paused

\* A seek to 100, not playing, created v1's element at 100 ms.
C2_Witness ==
    /\ ev.op = "seek"
    /\ ~isPlaying
    /\ \E h \in ev.created :
          /\ elements[h].tag = VIDEO
          /\ elements[h].currentTime = 100
          /\ elements[h].paused

\* C3: play() from the not-playing state starts every active video and
\* audio element once, on the element objects that were active (the map is
\* unchanged, nothing is created or released), and starts no image.
C3_PlayStartsLoaded ==
    [][(~isPlaying /\ ev'.op = "play") =>
          /\ isPlaying'
          /\ activeMediaMap' = activeMediaMap
          /\ ev'.created = {} /\ ev'.destroyed = {}
          /\ \A i \in 1..Len(activeMediaMap) :
                LET h == activeMediaMap[i].element
                IN  Count(ev'.started, h) =
                        IF activeMediaMap[i].item.type \in {VIDEO, AUDIO} THEN 1 ELSE 0
          /\ \A k \in 1..Len(ev'.started) : ev'.started[k] \in ActiveHandles]_vars

\* play() started the paused video at the position a seek left it at, with
\* an image active beside it.
C3_Witness ==
    /\ ev.op = "play"
    /\ isPlaying
    /\ playheadPosition = 499
    /\ \E i, j \in 1..Len(activeMediaMap) :
          /\ activeMediaMap[i].item.type = VIDEO
          /\ activeMediaMap[j].item.type = IMAGE
          /\ ev.started = << activeMediaMap[i].element >>
          /\ elements[activeMediaMap[i].element].currentTime = 499

\* C4: across a frame tick or a seek, an item that was active, is still in
\* the track set as the entry holds it, and whose interval contains the new
\* playhead keeps its element object: it is neither released nor created
\* anew.  A pass creates at most one element per item, always a new object.
C4_NoSpuriousRestart ==
    [][ev'.op \in {"seek", "animate"} =>
          /\ \A i \in 1..Len(activeMediaMap) :
                LET e == activeMediaMap[i]
                IN  (/\ e.item \in AllItems(TracksOf(ev'.tracks))
                     /\ e.item.startTime <= playheadPosition'
                     /\ playheadPosition' < e.item.startTime + e.item.duration)
                    => /\ MapHas(activeMediaMap', e.id)
                       /\ MapGet(activeMediaMap', e.id).element = e.element
                       /\ e.element \notin ev'.destroyed
                       /\ e.element \notin ev'.created
          /\ \A h \in ev'.created : h \notin DOMAIN elements
          /\ \A g, h \in ev'.created : g[1] = h[1] => g = h]_vars

\* A frame tick moved the playhead inside v1 and i1: both stayed, nothing
\* was created or released.
C4_Witness ==
    /\ ev.op = "animate"
    /\ ev.created = {} /\ ev.destroyed = {}
    /\ playheadPosition \in {300, 400}
    /\ MapKeys(activeMediaMap) = {"v1", "i1"}

\* C5: a video or audio element created by a synchronization pass is
\* started by that pass, once, exactly when the service is playing at that
\* moment; an image element is never started.
C5_StartedIffPlaying ==
    SyncPass =>
        \A h \in ev.created :
            Count(ev.started, h) =
                IF isPlaying /\ EntryOf(activeMediaMap, h).item.type \in {VIDEO, AUDIO}
                THEN 1 ELSE 0

\* A frame tick, playing, reached a1 and started the audio element it
\* created for it.
C5_Witness ==
    /\ ev.op = "animate"
    /\ isPlaying
    /\ \E h \in ev.created :
          /\ elements[h].tag = AUDIO
          /\ ev.started = << h >>
          /\ ~elements[h].paused

\* C6: while the service is not playing, no active video or audio element
\* is advancing, whatever play() promises settle in between.
C6_FrozenWhenNotPlaying ==
    ~isPlaying =>
        \A i \in 1..Len(activeMediaMap) :
            LET el == elements[activeMediaMap[i].element]
            IN  IsMediaElement(el) => el.paused

C8_DriftCorrection ==
    [][/\ ev'.op = "animate" =>
            \A i \in 1..Len(activeMediaMap) :
               LET e        == activeMediaMap[i]
                   h        == e.element
                   expected == MediaTime(e.item, playheadPosition')
                   moved    == \E r \in ev'.repositioned : r[1] = h
               IN  (h \in ActiveHandles') =>
                      IF /\ e.item.type \in {VIDEO, AUDIO}
                         /\ Abs(elements[h].currentTime - expected) > 300
                      THEN moved /\ elements'[h].currentTime = expected
                      ELSE ~moved /\ elements'[h].currentTime = elements[h].currentTime
       /\ ev'.op = "seek" => ev'.repositioned = {}]_vars

\* C9: a paint draws exactly the active entries that are not audio and
\* whose frame is ready (video with a decoded frame, image fully loaded,
\* of non-zero size), each once, in non-increasing trackOrder, so that
\* order 0 is drawn last.
C9_PaintOrder ==
    ev.painted =>
        /\ {ev.drawn[k] : k \in 1..Len(ev.drawn)} =
              {activeMediaMap[i].id : i \in
                  {j \in 1..Len(activeMediaMap) :
                      LET el == elements[activeMediaMap[j].element]
                      IN  /\ activeMediaMap[j].item.type # AUDIO
                          /\ el.loaded
                          /\ el.width > 0}}
        /\ Cardinality({ev.drawn[k] : k \in 1..Len(ev.drawn)}) = Len(ev.drawn)
        /\ \A k, l \in 1..Len(ev.drawn) :
              k < l => MapGet(activeMediaMap, ev.drawn[k]).trackOrder >=
                       MapGet(activeMediaMap, ev.drawn[l]).trackOrder

\* A paint drew the image of track order 1 and then the video of track
\* order 0, which entered the map first.
C9_Witness ==
    /\ ev.painted
    /\ ev.drawn = << "i1", "v1" >>
    /\ activeMediaMap[1].id = "v1"
    /\ activeMediaMap[1].trackOrder = 0
    /\ MapGet(activeMediaMap, "i1").trackOrder = 1

\* C10: a seek that follows a seek with the same track set and position
\* creates and releases nothing and leaves the active map and the playhead
\* as the first seek left them.
C10_SeekIdempotent ==
    [][(/\ ev.op = "seek" /\ ev'.op = "seek"
        /\ ev'.tracks = ev.tracks /\ ev'.position = ev.position) =>
          /\ ev'.created = {} /\ ev'.destroyed = {}
          /\ activeMediaMap' = activeMediaMap
          /\ playheadPosition' = playheadPosition]_vars

\* A seek to the start of v1 and i1 found both active, repositioned the
\* video and created and released nothing.
C10_Witness ==
    /\ ev.op = "seek"
    /\ ev.position = 0
    /\ ev.created = {} /\ ev.destroyed = {}
    /\ ev.seeked # {}
    /\ MapKeys(activeMediaMap) = {"v1", "i1"}

\* C11: after every frame tick the playhead is at most the total duration
\* of the running loop; a tick that leaves the service playing leaves the
\* playhead below it; a tick that reached the end leaves the playhead at
\* the total duration (not 0), the service not playing, no frame requested,
\* and has started none of the elements it created.
C11_EndOfTimeline ==
    [][ev'.op = "animate" =>
          LET total == TotalDurationOf(ev'.tracks)
          IN  /\ playheadPosition' <= total
              /\ isPlaying' => playheadPosition' < total
              /\ ~isPlaying' =>
                    /\ playheadPosition' = total
                    /\ playheadPosition' # 0
                    /\ frameRequests' = {}
                    /\ animationFrameId' = NoFrame
                    /\ ev'.started = << >>
                    /\ \A h \in ev'.created :
                          IsMediaElement(elements'[h]) => elements'[h].paused]_vars

\* The tick from 0 by 400 ms reached the end of the second timeline: it
\* created v1's element there and left it paused.
C11_Witness ==
    /\ ev.op = "animate"
    /\ ev.tracks = "T2"
    /\ ~isPlaying
    /\ playheadPosition = 400
    /\ frameRequests = {}
    /\ << "v1", 1 >> \in ev.created
    /\ elements[<< "v1", 1 >>].paused

\* C12: no frame tick decreases the playhead, wherever seek or
\* setPlayheadPosition put it before.
C12_ForwardOnly ==
    [][ev'.op = "animate" => playheadPosition' >= playheadPosition]_vars

\* C13: pause() and stop() leave no frame request behind, and a frame
\* callback that runs while the service is not playing changes neither the
\* playhead nor the active map nor any element.
C13_Cancellation ==
    [][/\ ev'.op \in {"pause", "stop"} => frameRequests' = {}
       /\ (~isPlaying /\ ev'.op \in {"animate", "animateReturn"}) =>
              UNCHANGED << isPlaying, playheadPosition, activeMediaMap, elements >>]_vars

\* pause() was called with a frame request pending and a video playing
\* (the playhead at 300 was reached by a tick): the request is gone.
C13_Witness ==
    /\ ev.op = "pause"
    /\ playheadPosition = 300
    /\ ev.paused # {}
    /\ ~isPlaying
    /\ frameRequests = {}

\* C14: between operations a frame request is pending exactly when the
\* service is playing, there is never more than one, and it is the one
\* animationFrameId names.
C14_SingleFrameLoop ==
    /\ Cardinality(frameRequests) <= 1
    /\ isPlaying <=> frameRequests # {}
    /\ \A r \in frameRequests : r.id = animationFrameId
    /\ ~isPlaying => animationFrameId = NoFrame

\* play() after a tick and a pause: playing again at 300 with the video
\* restarted and one frame request.
C14_Witness ==
    /\ ev.op = "play"
    /\ ev.started # << >>
    /\ playheadPosition = 300
    /\ isPlaying
    /\ Cardinality(frameRequests) = 1

\* C15: after stop() the service is not playing, no frame request is
\* pending, the playhead is 0, the active map is empty, and each element
\* that was active has been paused and released, each once.
C15_StopPostcondition ==
    [][ev'.op = "stop" =>
          /\ ~isPlaying'
          /\ frameRequests' = {}
          /\ animationFrameId' = NoFrame
          /\ playheadPosition' = 0
          /\ activeMediaMap' = << >>
          /\ ev'.destroyed = ActiveHandles
          /\ Cardinality(ActiveHandles) = Len(activeMediaMap)
          /\ ev'.created = {} /\ ev'.started = << >>
          /\ \A h \in ActiveHandles :
                IsMediaElement(elements[h]) =>
                   /\ h \in ev'.paused
                   /\ h \in DOMAIN elements' =>
                         /\ elements'[h].paused
                         /\ elements'[h].src = {""}]_vars

\* stop() released the video and the image that were active.
C15_Witness ==
    /\ ev.op = "stop"
    /\ ev.destroyed = {<< "v1", 1 >>, << "i1", 1 >>}
    /\ ev.paused = {<< "v1", 1 >>}
    /\ activeMediaMap = << >>
    /\ playheadPosition = 0

\* C16: pause() leaves the playhead and the active map (entries and element
\* objects) as they were, creates and releases nothing, leaves the service
\* not playing with no frame request, and every active video and audio
\* element paused at its position; a pause() right after a pause() changes
\* nothing at all.
C16_PauseFreezes ==
    [][ev'.op = "pause" =>
          /\ UNCHANGED << playheadPosition, activeMediaMap >>
          /\ ~isPlaying'
          /\ frameRequests' = {}
          /\ animationFrameId' = NoFrame
          /\ ev'.created = {} /\ ev'.destroyed = {} /\ ev'.started = << >>
          /\ \A h \in ActiveHandles :
                /\ h \in DOMAIN elements'
                /\ elements'[h].currentTime = elements[h].currentTime
                /\ IsMediaElement(elements[h]) => elements'[h].paused
          /\ ev.op = "pause" => UNCHANGED vars]_vars

\* pause() froze a video whose start request is still outstanding.
C16_Witness ==
    /\ ev.op = "pause"
    /\ ~isPlaying
    /\ \E h \in ActiveHandles :
          /\ elements[h].tag = VIDEO
          /\ h \in ev.paused
          /\ elements[h].paused
          /\ elements[h].starting > 0

\* C17: play() while playing starts no element, requests no frame, keeps
\* the frame timestamp and the tracks and total duration of the running
\* loop: the state of the service is unchanged.
C17_PlayWhilePlaying ==
    [][(isPlaying /\ ev'.op = "play") =>
          /\ ev'.started = << >>
          /\ UNCHANGED << isPlaying, playheadPosition, animationFrameId,
                          lastFrameTime, activeMediaMap, canvas, canvasContext,
                          frameRequests, elements >>]_vars

\* play() was called with another timeline while a video was playing, some
\* time after the last clock reading: the video was not started again, the
\* reading is kept and the loop keeps its own timeline.
C17_Witness ==
    /\ ev.op = "play"
    /\ isPlaying
    /\ ev.started = << >>
    /\ lastFrameTime < Now
    /\ \E h \in ActiveHandles : elements[h].tag = VIDEO /\ ~elements[h].paused
    /\ \E r \in frameRequests : r.tracks # ev.tracks

\* C18: an element that has been released (it is no longer in the active
\* map) is not started, repositioned or muted by any later step.
C18_ReleasedNeverUsed ==
    [][\A h \in DOMAIN elements \ ActiveHandles :
          /\ \A k \in 1..Len(ev'.started) : ev'.started[k] # h
          /\ h \notin ev'.muted
          /\ h \notin ev'.seeked
          /\ \A r \in ev'.repositioned : r[1] # h]_vars

\* C19: setPlayheadPosition changes the playhead and nothing else: no
\* synchronization, no paint, no change of the playing flag, the frame
\* request, the active map or any element.
C19_SetPlayheadOnly ==
    [][ev'.op = "setPlayheadPosition" =>
          /\ playheadPosition' = ev'.position
          /\ ~ev'.painted
          /\ ev'.created = {} /\ ev'.destroyed = {} /\ ev'.started = << >>
          /\ UNCHANGED << isPlaying, animationFrameId, lastFrameTime,
                          activeMediaMap, canvas, canvasContext, frameRequests,
                          elements >>]_vars

\* The playhead was set to 500 while playing: v1, which ends at 500, is
\* still active and running.
C19_Witness ==
    /\ ev.op = "setPlayheadPosition"
    /\ isPlaying
    /\ playheadPosition = 500
    /\ MapHas(activeMediaMap, "v1")
    /\ ~elements[MapGet(activeMediaMap, "v1").element].paused

\* C20: without a canvas (or without its 2d context) a paint draws
\* nothing, while the tick or seek around it still moves the playhead and
\* synchronizes the active map; renderCurrentFrame never changes the
\* playhead, the playing flag or the active map.
C20_NoSurface ==
    [][/\ (~(canvas /\ canvasContext)
           /\ ev'.op \in {"animate", "seek", "renderCurrentFrame"}) =>
             /\ ~ev'.painted
             /\ ev'.drawn = << >>
             /\ ev'.op \in {"animate", "seek"} =>
                   /\ playheadPosition' = ev'.position
                   /\ MapKeys(activeMediaMap') =
                          DesiredIds(TracksOf(ev'.tracks), playheadPosition')
       /\ ev'.op = "renderCurrentFrame" =>
             UNCHANGED << playheadPosition, isPlaying, activeMediaMap >>]_vars

\* A seek without a canvas moved the playhead to 100 and kept a loaded,
\* drawable element active, and painted nothing.
C20_Witness ==
    /\ ev.op = "seek"
    /\ ~canvas
    /\ playheadPosition = 100
    /\ ~ev.painted
    /\ \E h \in ActiveHandles : elements[h].loaded /\ elements[h].width > 0

(***************************************************************************)
(* TimelineHistoryService.                                                 *)
(***************************************************************************)
\* What the stacks hold, and what the last call returned, as values.
UndoTexts == Texts(heap, undoStack)
RedoTexts == Texts(heap, redoStack)
ReturnedText == TextOf(heap, returned)
Least(a, b) == IF a < b THEN a ELSE b

\* C21: after pushState the redo stack is empty (redoCount() is 0,
\* canRedo() is false) and undoCount() is the smaller of the count before
\* plus one and MAX_HISTORY_SIZE.
C21_PushClearsRedo ==
    hist.op = "pushState" =>
        /\ redoStack = << >>
        /\ redoCount = 0
        /\ ~canRedo
        /\ undoCount = Least(hist.undoCountBefore + 1, MAX_HISTORY_SIZE)

\* A push that found a snapshot on the redo stack.
C21_Witness ==
    /\ hist.op = "pushState"
    /\ hist.redoCountBefore > 0
    /\ hist.undoCountBefore > 0

\* C22: undo is last-in first-out.  A push leaves the pushed state on top of
\* the undo stack; an undo on a non-empty undo stack returns the top
\* snapshot, takes it (and nothing else) off the undo stack, so undoCount()
\* drops by one, and puts the current state on top of the redo stack, so
\* redoCount() grows by one; the undo after an undo returns the snapshot
\* that was next below.
C22_UndoLifo ==
    [][/\ hist'.op = "pushState" =>
             UndoTexts'[undoCount'] = hist'.arg
       /\ (hist'.op = "undo" /\ hist'.undoCountBefore > 0) =>
             /\ ReturnedText' = hist'.undoBefore[hist'.undoCountBefore]
             /\ UndoTexts' = SubSeq(hist'.undoBefore, 1, hist'.undoCountBefore - 1)
             /\ undoCount' = undoCount - 1
             /\ RedoTexts' = Append(hist'.redoBefore, hist'.arg)
             /\ redoCount' = redoCount + 1
             /\ (hist.op = "undo" /\ hist.undoCountBefore > 1) =>
                   ReturnedText' = hist.undoBefore[hist.undoCountBefore - 1]]_vars

\* The second of two undos in a row returned the older of two different
\* snapshots.
C22_Witness ==
    /\ hist.op = "undo"
    /\ hist.prevOp = "undo"
    /\ hist.undoCountBefore = 1
    /\ redoCount = 2
    /\ RedoTexts[2] # ReturnedText
    /\ RedoTexts[1] # RedoTexts[2]

\* C23: an undo that returned a state p, followed at once by redo(p),
\* returns a state equal to the one the undo was given and leaves both stacks
\* holding what they held before the undo; and the same for a redo followed
\* by undo of what it returned.
C23_RoundTrip ==
    [][(/\ hist.op \in {"undo", "redo"}
        /\ returned # NullRef
        /\ hist'.op \in {"undo", "redo"}
        /\ hist'.op # hist.op
        /\ hist'.passed = "returned") =>
            /\ returned' # NullRef
            /\ ReturnedText' = hist.arg
            /\ UndoTexts' = hist.undoBefore
            /\ RedoTexts' = hist.redoBefore]_vars

\* redo(p) right after an undo that returned p, where p differs from the
\* state the undo was given and both stacks held something before.
C23_Witness ==
    /\ hist.op = "redo"
    /\ hist.prevOp = "undo"
    /\ hist.passed = "returned"
    /\ hist.redoCountBefore > 1
    /\ returned # NullRef
    /\ ReturnedText # hist.arg
    /\ undoCount > 0

\* C24: the undo stack never holds more than MAX_HISTORY_SIZE snapshots,
\* whatever pushState, undo, redo and clearHistory were called; a push on a
\* full stack drops the oldest snapshot and keeps the others in order, the
\* pushed state last.
C24_Bounded ==
    /\ [](undoCount <= MAX_HISTORY_SIZE)
    /\ [][(hist'.op = "pushState" /\ undoCount = MAX_HISTORY_SIZE) =>
             UndoTexts' = Append(Tail(UndoTexts), hist'.arg)]_vars

\* A push on a full stack of different snapshots.
C24_Witness ==
    /\ hist.op = "pushState"
    /\ hist.undoCountBefore = MAX_HISTORY_SIZE
    /\ undoCount = MAX_HISTORY_SIZE
    /\ UndoTexts[1] # UndoTexts[undoCount]

\* C25: a write to a state the caller holds, one it passed to pushState,
\* undo or redo or one that undo or redo returned, changes no snapshot on
\* either stack.
C25_Isolated ==
    [][hist'.op = "write" =>
          /\ Texts(heap', undoStack') = UndoTexts
          /\ Texts(heap', redoStack') = RedoTexts]_vars

\* A write to the state an undo returned, with snapshots on both stacks.
C25_Witness ==
    /\ hist.op = "write"
    /\ hist.prevOp = "undo"
    /\ hist.passed = "returned"
    /\ undoCount > 0
    /\ redoCount > 0

\* C26: undo on an empty undo stack and redo on an empty redo stack return
\* null and leave both stacks as they were: the current state is not put on
\* the other stack.
C26_EmptyReturnsNull ==
    [][/\ (hist'.op = "undo" /\ undoStack = << >>) =>
             /\ returned' = NullRef
             /\ undoStack' = << >>
             /\ RedoTexts' = RedoTexts
       /\ (hist'.op = "redo" /\ redoStack = << >>) =>
             /\ returned' = NullRef
             /\ redoStack' = << >>
             /\ UndoTexts' = UndoTexts]_vars

\* A redo that found the redo stack empty and the undo stack not.
C26_Witness ==
    /\ hist.op = "redo"
    /\ hist.redoCountBefore = 0
    /\ returned = NullRef
    /\ undoCount > 0

(***************************************************************************)
(* TimelineStorageService.                                                 *)
(***************************************************************************)
\* What loadState() would return from a working localStorage, as a value.
WouldLoad ==
    IF Truthy(localStorage)
    THEN LET parsed == Parse(heap, localStorage)
         IN  TextOf(parsed.heap, parsed.ref)
    ELSE NullText

\* C27: on a working localStorage, loadState() returns a state equal to the
\* one given to the most recent saveState() since the last clearState(), and
\* null if there was none; hasSavedState() is true exactly when loadState()
\* would return a state.
C27_StorageRoundTrip ==
    /\ hist.op = "loadState" => ReturnedText = lastSaved
    /\ hist.op = "hasSavedState" =>
          /\ hist.has = (WouldLoad # NullText)
          /\ hist.has = (lastSaved # NullText)

\* A load that returned the saved state after the caller had changed its
\* own copy.
C27_Witness ==
    /\ hist.op = "loadState"
    /\ returned # NullRef
    /\ ReturnedText = lastSaved
    /\ Stringify(heap, current) # lastSaved

\* C28: when localStorage throws, every operation of the service returns
\* normally, loadState() returns null, and a saveState() that failed leaves
\* the stored item as it was.
C28_Graceful ==
    [][hist'.threw =>
          /\ ~hist'.propagated
          /\ hist'.op = "loadState" => returned' = NullRef
          /\ hist'.op = "saveState" => localStorage' = localStorage]_vars

(***************************************************************************)
(* NotificationsComponent.                                                 *)
(***************************************************************************)
\* The frame requests pending for a notification.
FramesOf(id) == {r \in progressFrames : r.note = id}

C30_ReadoutCurrent ==
    ev.op = "activeMediaItems" =>
        activeMediaItems.value = SortByTrackOrder(activeMediaMap)

(***************************************************************************)
(* PlaybackService: entries that outlive a pass, the frame loop's          *)
(* arguments, the playing run.                                             *)
(***************************************************************************)
\* The tracks of a list that hold an item of the given id.
TracksHolding(tracks, id) ==
    {t \in 1..Len(tracks) :
        \E i \in 1..Len(tracks[t].items) : tracks[t].items[i].id = id}

\* The latest order handed to the paint by a pass over `tracks` for the
\* item: track.order of the track that holds it.
TrackOrderIn(tracks, id) ==
    tracks[CHOOSE t \in TracksHolding(tracks, id) :
              \A u \in TracksHolding(tracks, id) : u <= t].order

\* C31: after every synchronization pass over a track list, the trackOrder
\* stored in each active entry is the order of the track of that list that
\* holds the entry's item, also when the entry was made by an earlier pass
\* over a list with other orders; and a paint made by the pass draws in
\* non-increasing order of those track orders.
C31_TrackOrderOfLatestPass ==
    SyncPass =>
        /\ \A i \in 1..Len(activeMediaMap) :
              activeMediaMap[i].trackOrder =
                  TrackOrderIn(TracksOf(ev.tracks), activeMediaMap[i].id)
        /\ \A k, l \in 1..Len(ev.drawn) :
              k < l => TrackOrderIn(TracksOf(ev.tracks), ev.drawn[k]) >=
                       TrackOrderIn(TracksOf(ev.tracks), ev.drawn[l])

\* The ids of the items of a track list.
ItemIds(tracks) == {item.id : item \in AllItems(tracks)}

\* C32: play() hands its track list and totalDuration to the frame loop,
\* no other operation called while playing changes what the pending frame
\* callback holds, and every frame tick synchronizes against the list of
\* its callback, ends the run against that callback's totalDuration, hands
\* both on to the next callback, and releases the entries of items that
\* are not in that list (those a seek over another list created).
C32_PlayTimeTracks ==
    [][/\ (ev'.op = "play" /\ ~isPlaying) =>
             \E r \in frameRequests' :
                /\ frameRequests' = {r}
                /\ r.tracks = ev'.tracks
                /\ r.totalDuration = TotalDurationOf(ev'.tracks)
       /\ (isPlaying /\ ev'.op \in {"seek", "play", "setPlayheadPosition",
                                     "renderCurrentFrame"}) =>
             frameRequests' = frameRequests
       /\ (isPlaying /\ ev'.op = "animate") =>
             \E req \in frameRequests :
                /\ frameRequests = {req}
                /\ ev'.tracks = req.tracks
                /\ MapKeys(activeMediaMap') =
                      DesiredIds(TracksOf(req.tracks), playheadPosition')
                /\ \A i \in 1..Len(activeMediaMap) :
                      activeMediaMap[i].id \notin ItemIds(TracksOf(req.tracks))
                          => activeMediaMap[i].element \in ev'.destroyed
                /\ IF isPlaying'
                   THEN /\ playheadPosition' < req.totalDuration
                        /\ \E r \in frameRequests' :
                              /\ frameRequests' = {r}
                              /\ r.tracks = req.tracks
                              /\ r.totalDuration = req.totalDuration
                   ELSE playheadPosition' = req.totalDuration
      ]_vars

\* Playing on the first timeline, a seek over the edited timeline made an
\* element for x2, which only the edited timeline has, and the next frame
\* tick went over the first timeline again and released it.
C32_Witness ==
    /\ ev.op = "animate"
    /\ ev.tracks = "T1"
    /\ isPlaying
    /\ << "x2", 1 >> \in ev.destroyed
    /\ \E r \in frameRequests : r.tracks = "T1" /\ r.totalDuration = 800

\* C33: while the service is playing, every video or audio element in the
\* active map has been asked to play since it was created and since it was
\* last paused, whatever seeks, pauses, plays and frame ticks came before.
C33_ActiveStartedWhilePlaying ==
    isPlaying =>
        \A i \in 1..Len(activeMediaMap) :
            LET el == elements[activeMediaMap[i].element]
            IN  IsMediaElement(el) => ~el.paused

\* Playing, a seek replaced the video by the audio item: the audio element
\* the seek created is in the active map and was started by it.
C33_Witness ==
    /\ isPlaying
    /\ ev.op = "seek"
    /\ \E h \in ev.created :
          /\ elements[h].tag = AUDIO
          /\ h \in ActiveHandles
          /\ ev.started = << h >>
    /\ ev.destroyed # {}

\* C34: after every frame tick of a playing run in which no seek and no
\* setPlayheadPosition moved the playhead, the playhead is where it was at
\* the run's play() call plus the time that passed since that call, capped
\* at the run's totalDuration, however much time had passed before the
\* call; and while the service is not playing, only seek,
\* setPlayheadPosition and stop change the playhead, the passing of time
\* and frame callbacks do not.
C34_OnlyPlayingTimeAdvances ==
    /\ [](ev.op = "animate" /\ ev.due # NoRun =>
             playheadPosition = Least(ev.due, TotalDurationOf(ev.tracks)))
    /\ [][(~isPlaying /\
            ev'.op \notin {"seek", "setPlayheadPosition", "stop"}) =>
               playheadPosition' = playheadPosition]_vars

\* play() was called at playhead 0, 400 ms after the clock was last read,
\* and the first tick came 300 ms after the call: the playhead is at 300.
C34_Witness ==
    /\ ev.op = "animate"
    /\ isPlaying
    /\ ev.idle = 400
    /\ ev.due = 300
    /\ playheadPosition = 300

\* The run started by play() over the track list of that name is going on.
Running(name) == isPlaying /\ \E r \in frameRequests : r.tracks = name

\* The run over that track list came to its end by a frame tick.
Ended(name) ==
    /\ ~isPlaying
    /\ ev.op = "animate"
    /\ ev.tracks = name
    /\ playheadPosition = TotalDurationOf(name)
    /\ frameRequests = {}
    /\ animationFrameId = NoFrame

\* C35: a playing run that is left alone, with the browser delivering
\* every pending frame callback a positive time after the last one, comes
\* to an end: the service is not playing, the playhead is at the run's
\* totalDuration, and no frame callback is pending.
C35_PlaybackTerminates ==
    /\ [](isPlaying => TickEnabled)
    /\ Running("T1") ~> Ended("T1")
    /\ Running("T2") ~> Ended("T2")

\* The run over the first timeline was left alone and has ended at 800,
\* its last tick coming later than the time that was left to play.
C35_Witness ==
    /\ Ended("T1")
    /\ playheadPosition = 800
    /\ ev.due > 800

====
